---- MODULE Spec2Model ----
(***************************************************************************)
(* The knowledge-base refresh pipeline of the RMIT advisor chatbot         *)
(* (src/app.py): the knowledge_base table and save_knowledge_item, the     *)
(* refresh run, should_refresh_knowledge and the sitemap resolver.         *)
(***************************************************************************)
EXTENDS Integers, Sequences, FiniteSets, TLC

VARIABLES
    knowledge_base,   \* the knowledge_base table: rows in rowid (insertion) order
    next_id,          \* number of uuid4 values drawn so far (each draw is fresh)
    now,              \* the wall clock in UTC, in whole hours
    call,             \* the last save_knowledge_item call: arguments, table before, result
    conn,             \* one connection per concurrent caller of save_knowledge_item
    run,              \* the refresh run in progress (refresh_knowledge_base_no_cache)
    log,              \* history: per URL of the current run, the page scraped and the store's answer
    prev,             \* history: the URL list, log and final table of the last completed run
    tz,               \* the local timezone offset of the host, hours east of UTC
    due,              \* the last should_refresh_knowledge call: what it read and returned
    sitemap,          \* the last get_sitemap_urls call: response, keywords and result
    reads,            \* the last get_knowledge_base call: when it ran and what it returned
    cancel,           \* whether the run in progress has been asked to stop
    session,          \* per browser session, the refresh run its script is executing
    page,             \* the script of one browser session: where it is, what it loaded and built
    cleaned,          \* the last cleaning of a page text in scrape_page: input and output
    chat_messages,    \* the chat_messages table: rows in rowid (insertion) order
    history           \* the last get_chat_history call: arguments and result

vars == <<knowledge_base, next_id, now, call, conn, run, log, prev, tz, due, sitemap,
          reads, cancel, session, page, cleaned, chat_messages, history>>

None == "none"

----------------------------------------------------------------------------
(* Bounds of the model *)

NumCallers == 2       \* concurrent callers of save_knowledge_item
MaxRuns == 2          \* refresh runs per behaviour
MaxClock == 7         \* hours the clock advances in the staleness specification
MaxSitemapLen == 12   \* <loc> entries of a sitemap of one shape
MaxMixedLen == 2      \* <loc> entries of a sitemap that mixes shapes
MaxSaves == 3         \* save_knowledge_item calls per behaviour of the store specification
MaxReadClock == 2     \* hours the clock advances between the reads of a table
MaxTextLen == 6       \* characters of a page text before the cleaning
MaxMessages == 3      \* messages saved per behaviour of the chat specification
MaxChatClock == 2     \* seconds the clock advances in the chat specification

----------------------------------------------------------------------------
(* Inputs *)

\* What the callers of save_knowledge_item pass besides the text: a
\* source_type that the table's CHECK accepts, a URL and a title.
SaveArgs ==
    {[source_type |-> "web", source_url |-> "A", title |-> "T1"],
     [source_type |-> "web", source_url |-> "B", title |-> "T2"],
     [source_type |-> "manual", source_url |-> "A", title |-> "T2"]}

\* A page text is its identity together with its length in characters: two
\* texts just over the length gate of the refresh run and one just not.
GateLen == 100
Contents ==
    {[text |-> t, len |-> IF t = 0 THEN GateLen ELSE GateLen + 1] : t \in {0, 1, 2}}

----------------------------------------------------------------------------
(* DatabaseManager: the knowledge_base table *)

\* hashlib.md5(content.encode()).hexdigest(): a digest of the text alone (not
\* of the URL or the title), free of collisions on the texts enumerated here.
md5_bug(content) == <<"md5", content.len * 1000 + content.text + 1000000 * next_id>>
md5(content) == <<"md5", content.len * 1000 + content.text>>

\* CURRENT_TIMESTAMP: the UTC time, as text 'YYYY-MM-DD HH:MM:SS'.
CURRENT_TIMESTAMP == [fmt |-> "sqlite", t |-> now]

\* str(uuid.uuid4()): a value no earlier draw returned.
uuid4 == [tag |-> "uuid", n |-> next_id + 1]

\* The string "duplicate", which save_knowledge_item returns instead of an id.
Duplicate == [tag |-> "duplicate", n |-> 0]

Rows(kb) == {kb[i] : i \in 1..Len(kb)}

\* SELECT kb_id FROM knowledge_base WHERE content_hash = ? AND is_active = 1
SelectActiveByHash_bug(kb, h) == {}
SelectActiveByHash(kb, h) ==
    {r \in Rows(kb) : r.content_hash = h /\ r.is_active = 1}

\* INSERT INTO knowledge_base (kb_id, source_type, source_url, title, content,
\* content_hash): last_updated and is_active take the column defaults.
InsertRow_bug(kb, kb_id, source_type, source_url, title, content, content_hash) ==
    Append(kb, [kb_id |-> kb_id, source_type |-> source_type,
                source_url |-> source_url, title |-> title, content |-> content,
                last_updated |-> CURRENT_TIMESTAMP,
                content_hash |-> content_hash, is_active |-> 0])
InsertRow_replace(kb, kb_id, source_type, source_url, title, content, content_hash) ==
    Append([k \in 1..Len(kb) |->
                IF kb[k].source_url = source_url THEN [kb[k] EXCEPT !.is_active = 0]
                ELSE kb[k]],
           [kb_id |-> kb_id, source_type |-> source_type,
            source_url |-> source_url, title |-> title, content |-> content,
            last_updated |-> CURRENT_TIMESTAMP,
            content_hash |-> content_hash, is_active |-> 1])
InsertRow(kb, kb_id, source_type, source_url, title, content, content_hash) ==
    Append(kb, [kb_id |-> kb_id, source_type |-> source_type,
                source_url |-> source_url, title |-> title, content |-> content,
                last_updated |-> CURRENT_TIMESTAMP,
                content_hash |-> content_hash, is_active |-> 1])

\* save_knowledge_item run to completion on one connection: the value it
\* returns and the table it leaves.
save_knowledge_item_bug(kb, source_type, source_url, title, content) ==
    LET kb_id == uuid4
        content_hash == md5(content)
    IN  IF {r \in SelectActiveByHash(kb, content_hash) : r.source_url = source_url} # {}
        THEN [result |-> Duplicate, kb |-> kb]
        ELSE [result |-> kb_id,
              kb |-> InsertRow(kb, kb_id, source_type, source_url, title,
                               content, content_hash)]
save_knowledge_item_uncommitted(kb, source_type, source_url, title, content) ==
    LET kb_id == uuid4
        content_hash == md5(content)
    IN  IF SelectActiveByHash(kb, content_hash) # {}
        THEN [result |-> Duplicate, kb |-> kb]
        ELSE [result |-> kb_id, kb |-> kb]
save_knowledge_item(kb, source_type, source_url, title, content) ==
    LET kb_id == uuid4
        content_hash == md5(content)
    IN  IF SelectActiveByHash(kb, content_hash) # {}
        THEN [result |-> Duplicate, kb |-> kb]
        ELSE [result |-> kb_id,
              kb |-> InsertRow(kb, kb_id, source_type, source_url, title,
                               content, content_hash)]

ActiveRows(kb) == {r \in Rows(kb) : r.is_active = 1}
ActiveWithHash(kb, h) == {i \in 1..Len(kb) : kb[i].is_active = 1 /\ kb[i].content_hash = h}

----------------------------------------------------------------------------
(* Initial values *)

NoArgs == [source_type |-> None, source_url |-> None, title |-> None]
NoContent == [text |-> 0, len |-> 0]
NoCall == [source_type |-> None, source_url |-> None, title |-> None,
           content |-> NoContent, before |-> <<>>, result |-> [tag |-> None, n |-> 0]]
IdleConn == [pc |-> "idle", args |-> NoArgs, content |-> NoContent,
             kb_id |-> [tag |-> None, n |-> 0], result |-> [tag |-> None, n |-> 0]]
NoMessage == [level |-> None, itemsAdded |-> 0]
IdleRun == [pc |-> "idle", urls |-> <<>>, i |-> 0, success_count |-> 0,
            start |-> <<>>, message |-> NoMessage]
NoPrev == [urls |-> <<>>, log |-> <<>>, kb |-> <<>>, runs |-> 0]
Null == [fmt |-> "null", t |-> 0]
NoSitemap == [called |-> FALSE, status |-> None, well_formed |-> TRUE,
              entries |-> <<>>, keywords |-> <<>>, all_urls |-> <<>>,
              result |-> <<>>, raised |-> FALSE]
NoDue == [called |-> FALSE, query |-> None, read |-> Null, at |-> 0,
          value |-> FALSE, raised |-> FALSE]

\* No get_knowledge_base call yet; no browser session open.
NoRead == [called |-> FALSE, during |-> FALSE, limit |-> 0, table |-> <<>>,
           items |-> <<>>]
NoSessions == [s \in {} |-> IdleRun]

\* The script of the session is between two interactions; nothing has been
\* cleaned; get_chat_history has not been called.
NoPrompt == [built |-> FALSE, raised |-> FALSE, text |-> None, knowledge_section |-> <<>>]
NoPage == [pc |-> "idle", db_knowledge |-> <<>>, prompt |-> NoPrompt,
           warning |-> FALSE, kb_just_refreshed |-> FALSE]
NoCleaning == [called |-> FALSE, raw |-> <<>>, content_text |-> <<>>]
NoHistory == [called |-> FALSE, session_id |-> None, limit |-> 0, table |-> <<>>,
              messages |-> <<>>]

InitStore ==
    /\ knowledge_base = <<>>
    /\ next_id = 0
    /\ now = 0
    /\ call = NoCall

InitRest ==
    /\ conn = [c \in {} |-> IdleConn]
    /\ run = IdleRun
    /\ log = <<>>
    /\ prev = NoPrev
    /\ tz = 0
    /\ due = NoDue
    /\ sitemap = NoSitemap
    /\ reads = NoRead
    /\ cancel = FALSE
    /\ session = NoSessions
    /\ page = NoPage
    /\ cleaned = NoCleaning
    /\ chat_messages = <<>>
    /\ history = NoHistory

----------------------------------------------------------------------------
(* The store used by one caller at a time *)

Init == InitStore /\ InitRest

\* One call of save_knowledge_item, from the SELECT to the commit.
SaveKnowledgeItem ==
    /\ next_id < MaxSaves
    /\ \E a \in SaveArgs, content \in Contents :
        LET out == save_knowledge_item(knowledge_base, a.source_type,
                                       a.source_url, a.title, content)
        IN  /\ knowledge_base' = out.kb
            /\ call' = [source_type |-> a.source_type, source_url |-> a.source_url,
                        title |-> a.title, content |-> content,
                        before |-> knowledge_base, result |-> out.result]
    /\ next_id' = next_id + 1
    /\ UNCHANGED <<now, conn, run, log, prev, tz, due, sitemap,
                 reads, cancel, session,
                 page, cleaned, chat_messages, history>>

Next == SaveKnowledgeItem

Spec == Init /\ [][Next]_vars

\* C1: after any sequence of save_knowledge_item calls issued one after
\* another, the table holds at most one active row for each content hash.
C1_AtMostOneActivePerHash ==
    \A i, j \in 1..Len(knowledge_base) :
        (/\ knowledge_base[i].is_active = 1
         /\ knowledge_base[j].is_active = 1
         /\ knowledge_base[i].content_hash = knowledge_base[j].content_hash) => i = j

\* Two texts are stored and a later call found its text already there.
C1_Witness ==
    /\ Len(knowledge_base) >= 2
    /\ call.result = Duplicate
    /\ Len(call.before) >= 2

\* C3: save_knowledge_item returns "duplicate" exactly when an active row with
\* the hash of the given text was in the table, and then leaves the table as
\* it was; otherwise it appends exactly one row, active, carrying the given
\* source_type, source_url, title and content, and returns that row's id,
\* which no earlier row has.
C3_SaveContract ==
    call.result.tag # None =>
        LET before == call.before
            existed == \E i \in 1..Len(before) :
                           /\ before[i].is_active = 1
                           /\ before[i].content_hash = md5(call.content)
            new == knowledge_base[Len(knowledge_base)]
        IN  /\ (call.result = Duplicate) <=> existed
            /\ existed => knowledge_base = before
            /\ ~existed =>
                  /\ Len(knowledge_base) = Len(before) + 1
                  /\ SubSeq(knowledge_base, 1, Len(before)) = before
                  /\ new.is_active = 1
                  /\ new.source_type = call.source_type
                  /\ new.source_url = call.source_url
                  /\ new.title = call.title
                  /\ new.content = call.content
                  /\ new.kb_id = call.result
                  /\ \A i \in 1..Len(before) : before[i].kb_id # new.kb_id

\* A call on a table that is not empty added a row for a text not yet there.
C3_Witness ==
    /\ Len(call.before) >= 1
    /\ call.result.tag = "uuid"
    /\ Len(knowledge_base) = Len(call.before) + 1

----------------------------------------------------------------------------
(* The store used by concurrent callers, each on its own connection *)

Callers == 1..NumCallers

InitConcurrent ==
    /\ InitStore
    /\ conn = [c \in Callers |-> IdleConn]
    /\ run = IdleRun
    /\ log = <<>>
    /\ prev = NoPrev
    /\ tz = 0
    /\ due = NoDue
    /\ sitemap = NoSitemap
    /\ reads = NoRead
    /\ cancel = FALSE
    /\ session = NoSessions
    /\ page = NoPage
    /\ cleaned = NoCleaning
    /\ chat_messages = <<>>
    /\ history = NoHistory

\* Caller c enters save_knowledge_item, draws its kb_id and runs the SELECT.
\* The SELECT is a statement of its own (sqlite3 opens a transaction only
\* before the INSERT): when it finds a row the call returns "duplicate".
Select(c) ==
    /\ conn[c].pc = "idle"
    /\ \E a \in SaveArgs, content \in Contents :
        LET found == SelectActiveByHash(knowledge_base, md5(content)) # {}
        IN  conn' = [conn EXCEPT ![c] =
                        [pc |-> IF found THEN "done" ELSE "insert",
                         args |-> a, content |-> content, kb_id |-> uuid4,
                         result |-> IF found THEN Duplicate
                                    ELSE [tag |-> None, n |-> 0]]]
    /\ next_id' = next_id + 1
    /\ UNCHANGED <<knowledge_base, now, call, run, log, prev, tz, due, sitemap,
                 reads, cancel, session,
                 page, cleaned, chat_messages, history>>

\* Caller c runs its INSERT and commits; the table has no UNIQUE constraint
\* that could refuse the row.
Insert(c) ==
    /\ conn[c].pc = "insert"
    /\ knowledge_base' = InsertRow(knowledge_base, conn[c].kb_id,
                                   conn[c].args.source_type, conn[c].args.source_url,
                                   conn[c].args.title, conn[c].content,
                                   md5(conn[c].content))
    /\ conn' = [conn EXCEPT ![c].pc = "done", ![c].result = conn[c].kb_id]
    /\ UNCHANGED <<next_id, now, call, run, log, prev, tz, due, sitemap,
                 reads, cancel, session,
                 page, cleaned, chat_messages, history>>

NextConcurrent == \E c \in Callers : Select(c) \/ Insert(c)

SpecConcurrent == InitConcurrent /\ [][NextConcurrent]_vars

\* C2: when callers run save_knowledge_item concurrently with texts of the
\* same hash, every interleaving of their SELECT and INSERT steps ends with
\* exactly one active row for that hash.
C2_ExactlyOneActivePerHash ==
    (\A c \in Callers : conn[c].pc = "done") =>
        \A c \in Callers :
            Cardinality(ActiveWithHash(knowledge_base, md5(conn[c].content))) = 1

----------------------------------------------------------------------------
(* The refresh run: refresh_knowledge_base_no_cache and refresh_knowledge_base *)

\* The URL lists get_sitemap_urls hands to a run in this specification.
UrlLists == {<<"A", "B", "C">>, <<"B", "A">>, <<"C">>}

\* What requests.get and the extraction give for one page: a failure of the
\* fetch, or the title and the cleaned text of the page.
ShortContent == [text |-> 3, len |-> GateLen - 1]

\* The other ways requests.get, raise_for_status and BeautifulSoup fail.
FailedFetches ==
    {[kind |-> k, title |-> None, content |-> NoContent] :
        k \in {"connection_error", "http_error", "parse_error"}}
Fetches ==
    {IF c = NoContent
        THEN [kind |-> "timeout", title |-> None, content |-> NoContent]
        ELSE [kind |-> "ok", title |-> "T1", content |-> c] :
            c \in Contents \cup {ShortContent, NoContent}}

\* scrape_page: the except branch turns every failure into a page_data with
\* success False and the error text as its content.
scrape_page(url, fetch) ==
    IF fetch.kind = "ok"
    THEN [url |-> url, title |-> fetch.title, content |-> fetch.content,
          success |-> TRUE]
    ELSE [url |-> url, title |-> "Error scraping",
          content |-> [text |-> -1, len |-> GateLen + 20], success |-> FALSE]

\* if page_data['success'] and len(page_data['content']) > 100
PassesGate_length_only(page_data) == page_data.content.len > GateLen
PassesGate_bug(page_data) == page_data.success /\ page_data.content.len >= GateLen
PassesGate(page_data) == page_data.success /\ page_data.content.len > GateLen

\* if result != "duplicate": success_count += 1
Tally_bug(success_count, result) == success_count + 1
Tally(success_count, result) ==
    IF result # Duplicate THEN success_count + 1 ELSE success_count

\* st.success(f"... {success_count} items!") or st.warning(...): the count
\* of added items is all a run tells its caller.
Message_bug(success_count) == [level |-> "success", itemsAdded |-> Len(run.urls)]
Message(success_count) ==
    IF success_count > 0
    THEN [level |-> "success", itemsAdded |-> success_count]
    ELSE [level |-> "warning", itemsAdded |-> 0]

InitRefresh ==
    /\ InitStore
    /\ conn = [c \in {} |-> IdleConn]
    /\ run = IdleRun
    /\ log = <<>>
    /\ prev = NoPrev
    /\ tz = 0
    /\ due = NoDue
    /\ sitemap = NoSitemap
    /\ reads = NoRead
    /\ cancel = FALSE
    /\ session = NoSessions
    /\ page = NoPage
    /\ cleaned = NoCleaning
    /\ chat_messages = <<>>
    /\ history = NoHistory

\* A run starts: urls = scraper.get_sitemap_urls(), success_count = 0.
StartRefresh ==
    /\ run.pc \in {"idle", "done"}
    /\ prev.runs + (IF run.pc = "done" THEN 1 ELSE 0) < MaxRuns
    /\ \E urls \in UrlLists :
        run' = [pc |-> "loop", urls |-> urls, i |-> 1, success_count |-> 0,
                start |-> knowledge_base, message |-> NoMessage]
    /\ log' = <<>>
    /\ prev' = IF run.pc = "done"
               THEN [urls |-> run.urls, log |-> log, kb |-> knowledge_base,
                     runs |-> prev.runs + 1]
               ELSE prev
    /\ UNCHANGED <<knowledge_base, next_id, now, call, conn, tz, due, sitemap,
                 reads, cancel, session,
                 page, cleaned, chat_messages, history>>

\* What the store does with a call: it answers, or it raises (the database
\* is locked or cannot be written) and leaves the table as it was.
StoreOutcomes == {"ok", "error"}
StoreError == [tag |-> "error", n |-> 0]
NotOffered == [tag |-> None, n |-> 0]

\* The loop goes on to the next URL: after a page that is not offered to the
\* store, and by "continue" after an exception.
Continue_bug(r) == [r EXCEPT !.i = Len(r.urls) + 1]
Continue_retry(r) == r
Continue(r) == [r EXCEPT !.i = r.i + 1]

\* One turn of "for url in urls": scrape the page and, when it passes the
\* gate, offer it to the store and count it unless the store says duplicate.
\* An exception of the store ends in "except Exception: continue".
RefreshTurn(fetch, store) ==
    /\ run.pc = "loop"
    /\ run.i <= Len(run.urls)
    /\  LET page_data == scrape_page(run.urls[run.i], fetch)
            out == save_knowledge_item(knowledge_base, "web", page_data.url,
                                       page_data.title, page_data.content)
        IN  IF PassesGate(page_data)
            THEN IF store = "ok"
                 THEN /\ knowledge_base' = out.kb
                      /\ next_id' = next_id + 1
                      /\ run' = [run EXCEPT !.i = run.i + 1,
                                            !.success_count = Tally(run.success_count, out.result)]
                      /\ log' = Append(log, [page |-> page_data, fetch |-> fetch.kind,
                                             saved |-> TRUE, result |-> out.result])
                 ELSE /\ run' = Continue(run)
                      /\ log' = Append(log, [page |-> page_data, fetch |-> fetch.kind,
                                             saved |-> TRUE, result |-> StoreError])
                      /\ UNCHANGED <<knowledge_base, next_id>>
            ELSE /\ store = "ok"
                 /\ run' = Continue(run)
                 /\ log' = Append(log, [page |-> page_data, fetch |-> fetch.kind,
                                        saved |-> FALSE, result |-> NotOffered])
                 /\ UNCHANGED <<knowledge_base, next_id>>
    /\ UNCHANGED <<now, call, conn, prev, tz, due, sitemap,
                 reads, cancel, session,
                 page, cleaned, chat_messages, history>>

\* The turn with a store that answers every call.
RefreshStep == \E fetch \in Fetches : RefreshTurn(fetch, "ok")

\* The list is exhausted: the run shows its message and returns.
FinishRefresh ==
    /\ run.pc = "loop"
    /\ run.i > Len(run.urls)
    /\ run' = [run EXCEPT !.pc = "done", !.message = Message(run.success_count)]
    /\ UNCHANGED <<knowledge_base, next_id, now, call, conn, log, prev, tz, due, sitemap,
                 reads, cancel, session,
                 page, cleaned, chat_messages, history>>

NextRefresh == StartRefresh \/ RefreshStep \/ FinishRefresh

SpecRefresh == InitRefresh /\ [][NextRefresh]_vars

\* The run before this one went over the same URL list and every page gave
\* then what it gives now.
SameAsPreviousRun ==
    /\ run.pc = "done"
    /\ prev.runs >= 1
    /\ prev.urls = run.urls
    /\ Len(prev.log) = Len(log)
    /\ \A i \in 1..Len(log) : prev.log[i].page = log[i].page

\* C4: the second of two runs in a row over the same URL list, every page
\* returning the same content in both, adds no item: every page offered to
\* the store in the first run is answered "duplicate" in the second, and the
\* table after the second run is the table after the first.
C4_SecondRunAddsNothing ==
    SameAsPreviousRun =>
        /\ run.success_count = 0
        /\ knowledge_base = prev.kb
        /\ \A i \in 1..Len(log) : prev.log[i].saved => log[i].result = Duplicate

\* Such a second run, after a first one that added rows and skipped a page.
C4_Witness ==
    /\ SameAsPreviousRun
    /\ Len(prev.kb) >= 2
    /\ \E i \in 1..Len(log) : log[i].result = Duplicate
    /\ \E i \in 1..Len(log) : ~log[i].saved

\* The texts that two different URLs of the current run gave, both passing
\* the gate.
SharedContents ==
    {c \in Contents :
        \E i, j \in 1..Len(log) :
            /\ log[i].saved /\ log[j].saved
            /\ log[i].page.content = c /\ log[j].page.content = c
            /\ log[i].page.url # log[j].page.url}

\* The URL of the first page of the current run that gave text c.
FirstUrlWith(c) ==
    LET first == CHOOSE i \in 1..Len(log) :
                    /\ log[i].saved /\ log[i].page.content = c
                    /\ \A j \in 1..(i - 1) : ~(log[j].saved /\ log[j].page.content = c)
    IN  log[first].page.url

ActiveWithContent(kb, c) == {r \in ActiveRows(kb) : r.content = c}

\* C5 as stated: when two different URLs of one run give the same cleaned
\* text passing the gate, the table ends with exactly one active row for that
\* text, and its source_url is the URL that was processed first.
C5_FirstUrlKept ==
    run.pc = "done" =>
        \A c \in SharedContents :
            /\ Cardinality(ActiveWithContent(knowledge_base, c)) = 1
            /\ \A r \in ActiveWithContent(knowledge_base, c) :
                    r.source_url = FirstUrlWith(c)

\* C5, amended: ... exactly one active row for that text; its source_url is
\* the URL processed first when no active row with that text's hash was in
\* the table as the run started, and otherwise the row that was there is
\* kept as it was.
C5_FirstUrlKeptUnlessStored ==
    run.pc = "done" =>
        \A c \in SharedContents :
            /\ Cardinality(ActiveWithContent(knowledge_base, c)) = 1
            /\ \A r \in ActiveWithContent(knowledge_base, c) :
                    IF SelectActiveByHash(run.start, md5(c)) = {}
                    THEN r.source_url = FirstUrlWith(c)
                    ELSE r \in Rows(run.start)

\* Two URLs gave the same text, which the table did not hold before the run.
C5_Witness ==
    /\ run.pc = "done"
    /\ \E c \in SharedContents : ActiveWithContent(run.start, c) = {}

\* A run over A, B, C on an empty table: A gives a text passing the gate,
\* B times out, C gives the text A gave.
C6_Scenario ==
    /\ run.pc = "done"
    /\ run.urls = <<"A", "B", "C">>
    /\ run.start = <<>>
    /\ log[1].fetch = "ok" /\ log[1].page.content.len > GateLen
    /\ log[2].fetch = "timeout"
    /\ log[3].fetch = "ok" /\ log[3].page.content = log[1].page.content

OneActiveEntryFromA ==
    /\ Cardinality(ActiveRows(knowledge_base)) = 1
    /\ \A r \in ActiveRows(knowledge_base) : r.source_url = "A"

StartRefreshOnce == run.pc = "idle" /\ StartRefresh
FaultyFetches == {fetch : fetch \in Fetches \cup FailedFetches}
RefreshStepFaults ==
    \E fetch \in FaultyFetches, store \in StoreOutcomes : RefreshTurn(fetch, store)

NextRefreshFaults == StartRefreshOnce \/ RefreshStepFaults \/ FinishRefresh

SpecRefreshFaults ==
    InitRefresh /\ [][NextRefreshFaults]_vars /\ WF_vars(NextRefreshFaults)

\* C13: a failure on one URL (the fetch fails or times out, the server
\* answers an error status, the page cannot be parsed, the text is too
\* short) never aborts the run: the turn for the next URL can be taken, and
\* the finished run has scraped every URL of the list, in order, and has
\* offered to the store every page that passed the gate.
C13_FailureNeverAborts ==
    /\ run.pc \in {"loop", "done"} =>
            /\ Len(log) = run.i - 1
            /\ \A i \in 1..Len(log) : log[i].page.url = run.urls[i]
    /\ (run.pc = "loop" /\ run.i <= Len(run.urls)) => ENABLED RefreshStepFaults
    /\ run.pc = "done" =>
            \A i \in 1..Len(run.urls) :
                /\ i <= Len(log)
                /\ PassesGate(log[i].page) => log[i].saved

\* A finished run whose first two pages failed, one in the fetch and one at
\* the gate, and whose third page was stored.
C13_Witness ==
    /\ run.pc = "done"
    /\ Len(log) = 3
    /\ log[1].fetch \in {"timeout", "connection_error", "http_error", "parse_error"}
    /\ log[2].fetch = "ok" /\ ~log[2].saved
    /\ log[3].saved /\ log[3].result.tag = "uuid"

\* C12: during a run a scraped page is passed to the store if and only if
\* its scrape succeeded and its cleaned text is longer than 100 characters:
\* a text of 99 or of exactly 100 characters is skipped and never stored, a
\* text of 101 characters is stored or found duplicate.
C12_OfferedIffLongerThan100 ==
    /\ \A i \in 1..Len(log) :
        /\ log[i].saved <=> (log[i].page.success /\ log[i].page.content.len > 100)
        /\ (log[i].page.content.len \in {99, 100} /\ log[i].page.success) =>
                /\ ~log[i].saved
                /\ ActiveWithContent(knowledge_base, log[i].page.content) = {}
        /\ (log[i].page.content.len = 101 /\ log[i].page.success) =>
                /\ log[i].result = Duplicate \/ log[i].result.tag = "uuid"
                /\ ActiveWithContent(knowledge_base, log[i].page.content) # {}
    /\ \A r \in Rows(knowledge_base) : r.content.len > 100

\* One run met a page of 99, a page of 100 and a page of 101 characters.
C12_Witness ==
    /\ run.pc = "done"
    /\ \E i, j, k \in 1..Len(log) :
        /\ log[i].page.success /\ log[i].page.content.len = 99 /\ ~log[i].saved
        /\ log[j].page.success /\ log[j].page.content.len = 100 /\ ~log[j].saved
        /\ log[k].page.success /\ log[k].page.content.len = 101 /\ log[k].saved

\* C14: when the store call fails during a run, the run processes no
\* further URL and does not return normally with its message: the failure
\* reaches the caller; the rows committed before the failure stay as they
\* were.
C14_StoreFailureStopsRun ==
    \A i \in 1..Len(log) :
        log[i].result = StoreError =>
            /\ Len(log) = i
            /\ run.pc = "done" => run.message.level \notin {"success", "warning"}
            /\ Len(run.start) <= Len(knowledge_base)
            /\ \A k \in 1..Len(run.start) : knowledge_base[k] = run.start[k]

\* The process is killed between two turns of the loop. Every row written
\* so far was committed by the call that wrote it; a kill inside a call
\* leaves the table as before the call or as after it.
Crash ==
    /\ run.pc = "loop"
    /\ run' = [run EXCEPT !.pc = "crashed"]
    /\ UNCHANGED <<knowledge_base, next_id, now, call, conn, log, prev, tz, due, sitemap,
                 reads, cancel, session,
                 page, cleaned, chat_messages, history>>

NextCrash == StartRefreshOnce \/ RefreshStepFaults \/ FinishRefresh \/ Crash

SpecCrash == InitRefresh /\ [][NextCrash]_vars

\* C17: each insert of a run is committed on its own: when the run stops
\* after k URLs, every row created for one of those k URLs is in the table
\* and active, and the run left no row for a URL it had not processed.
C17_ProgressSurvivesCrash ==
    run.pc \in {"loop", "crashed", "done"} =>
        /\ \A i \in 1..Len(log) :
                log[i].result.tag = "uuid" =>
                    \E r \in ActiveRows(knowledge_base) :
                        /\ r.kb_id = log[i].result
                        /\ r.source_url = log[i].page.url
                        /\ r.content = log[i].page.content
        /\ \A k \in (Len(run.start) + 1)..Len(knowledge_base) :
                \E i \in 1..Len(log) : knowledge_base[k].source_url = log[i].page.url

\* The run was killed after it had stored a page and before its last URL.
C17_Witness ==
    /\ run.pc = "crashed"
    /\ Len(log) < Len(run.urls)
    /\ \E i \in 1..Len(log) : log[i].result.tag = "uuid"

\* C19: a run never changes or deletes a row and never changes an
\* is_active flag: every row that was in the table as the run started is
\* there, with the same values, during the run and after it, and the set of
\* active rows only grows.
C19_RunOnlyAddsRows ==
    run.pc \in {"loop", "done"} =>
        /\ Len(run.start) <= Len(knowledge_base)
        /\ \A k \in 1..Len(run.start) : knowledge_base[k] = run.start[k]
        /\ ActiveRows(run.start) \subseteq ActiveRows(knowledge_base)

\* A finished run that found rows in the table and added one, from a URL
\* that had a row already.
C19_Witness ==
    /\ run.pc = "done"
    /\ run.start # <<>>
    /\ Len(knowledge_base) > Len(run.start)
    /\ knowledge_base[Len(knowledge_base)].source_url \in
            {run.start[k].source_url : k \in 1..Len(run.start)}

\* C20: every run terminates: whatever the pages give (a text, an error
\* status, a transport error, a timeout), each URL of the list, of at most
\* 10, is scraped exactly once, in list order and one after the other, and
\* the run then returns; a timeout is the failure of that URL alone.
C20_RunTerminates ==
    /\ [](run.pc \in {"loop", "done"} =>
            /\ Len(run.urls) <= 10
            /\ Len(log) = run.i - 1
            /\ Len(log) <= Len(run.urls)
            /\ \A i \in 1..Len(log) :
                    /\ log[i].page.url = run.urls[i]
                    /\ log[i].fetch = "timeout" => (~log[i].page.success /\ ~log[i].saved)
            /\ run.pc = "done" => Len(log) = Len(run.urls))
    /\ (run.pc = "loop") ~> (run.pc = "done")

\* A finished run of three URLs: an error status, a timeout, a stored page.
C20_Witness ==
    /\ run.pc = "done"
    /\ Len(log) = 3
    /\ log[1].fetch = "http_error"
    /\ log[2].fetch = "timeout"
    /\ log[3].fetch = "ok" /\ log[3].result.tag = "uuid"

\* C27: a scrape that fails never puts its error text into the table: for
\* every failed fetch, also when the 'Failed to scrape: ...' text is longer
\* than 100 characters, the store is not called for that URL and the run
\* creates no row with that URL or with that text.
C27_ErrorTextNeverStored ==
    \A i \in 1..Len(log) :
        log[i].fetch # "ok" =>
            /\ ~log[i].page.success
            /\ ~log[i].saved
            /\ log[i].result = NotOffered
            /\ \A r \in Rows(knowledge_base) : r.content # log[i].page.content
            /\ \A k \in (Len(run.start) + 1)..Len(knowledge_base) :
                    knowledge_base[k].source_url # log[i].page.url

\* A finished run in which a fetch failed with an error text longer than
\* the gate asks for, and another page was stored.
C27_Witness ==
    /\ run.pc = "done"
    /\ \E i, j \in 1..Len(log) :
        /\ log[i].fetch # "ok" /\ log[i].page.content.len > 100
        /\ log[j].result.tag = "uuid"

\* The turns of the current run by what became of the URL.
TurnsAdded == {i \in 1..Len(log) : log[i].result.tag = "uuid"}
TurnsDuplicate == {i \in 1..Len(log) : log[i].result = Duplicate}
TurnsStoreFailed == {i \in 1..Len(log) : log[i].result = StoreError}
TurnsNotOffered == {i \in 1..Len(log) : ~log[i].saved}
TurnsPastGate == {i \in 1..Len(log) : PassesGate(log[i].page)}

----------------------------------------------------------------------------
(* Staleness: should_refresh_knowledge *)

\* timedelta(hours=6)
RefreshHours == 6

\* Hours east of UTC of the hosts the application may run on.
TzOffsets == {-5, 0, 7}

\* datetime.now(): the local time of the host, without a timezone.
datetime_now == now + tz

\* A knowledge_base row that was in the database file before this program
\* opened it (CREATE TABLE IF NOT EXISTS keeps it), with a last_updated that
\* is not of CURRENT_TIMESTAMP's form: ISO text ending in Z, a date and time
\* without zero padding, text that is no date, or a number.
LegacyFormats == {"isoZ", "loose", "text", "int"}
LegacyRow(fmt) ==
    [kb_id |-> [tag |-> "uuid", n |-> 0], source_type |-> "manual",
     source_url |-> "A", title |-> "T2", content |-> [text |-> 9, len |-> GateLen + 1],
     last_updated |-> [fmt |-> fmt, t |-> 0],
     content_hash |-> md5([text |-> 9, len |-> GateLen + 1]), is_active |-> 1]

\* How SQLite orders two last_updated values: numbers before text, text by
\* its bytes. Within one day, CURRENT_TIMESTAMP values order by time and come
\* before the same day written with a T or without padding, and text that
\* starts with a letter comes last.
SqlRank(v) ==
    CASE v.fmt = "int" -> 0
      [] v.fmt = "sqlite" -> 1
      [] v.fmt \in {"isoZ", "loose"} -> 2
      [] OTHER -> 3
SqlLess(a, b) ==
    \/ SqlRank(a) < SqlRank(b)
    \/ SqlRank(a) = SqlRank(b) /\ a.t < b.t

\* SELECT MAX(last_updated) FROM knowledge_base WHERE is_active = 1
MaxLastUpdated(kb) ==
    IF ActiveRows(kb) = {} THEN Null
    ELSE LET stamps == {r.last_updated : r \in ActiveRows(kb)}
         IN  CHOOSE m \in stamps : \A o \in stamps : ~SqlLess(m, o)

\* datetime.fromisoformat(s.replace('Z', '+00:00')), then
\* datetime.strptime(s, '%Y-%m-%d %H:%M:%S'): the datetime parsed, with or
\* without a timezone, or the ValueError of both.
ParseTimestamp(v) ==
    CASE v.fmt = "sqlite" -> [ok |-> TRUE, aware |-> FALSE, t |-> v.t]
      [] v.fmt = "isoZ" -> [ok |-> TRUE, aware |-> TRUE, t |-> v.t]
      [] v.fmt = "loose" -> [ok |-> TRUE, aware |-> FALSE, t |-> v.t]
      [] OTHER -> [ok |-> FALSE, aware |-> FALSE, t |-> 0]

\* except Exception as e: st.error(...); return True
OnException_bug(e) == [value |-> FALSE, raised |-> TRUE]
OnException(e) == [value |-> TRUE, raised |-> FALSE]

\* (datetime.now() - last_updated) > timedelta(hours=6)
IsOlder(last_updated) == datetime_now - last_updated > RefreshHours

\* should_refresh_knowledge, given whether the query raised.
should_refresh_knowledge(query, kb) ==
    IF query = "error" THEN OnException("OperationalError")
    ELSE LET result == MaxLastUpdated(kb)
             parsed == ParseTimestamp(result)
         IN  IF result = Null THEN [value |-> TRUE, raised |-> FALSE]
             ELSE IF result.fmt # "int"
             THEN IF ~parsed.ok THEN [value |-> TRUE, raised |-> FALSE]
                  ELSE IF parsed.aware THEN OnException("TypeError")
                  ELSE [value |-> IsOlder(parsed.t), raised |-> FALSE]
             ELSE OnException("TypeError")

InitStale ==
    /\ knowledge_base \in {<<>>} \cup {<<LegacyRow(f)>> : f \in LegacyFormats}
    /\ next_id = 0
    /\ now = 0
    /\ call = NoCall
    /\ conn = [c \in {} |-> IdleConn]
    /\ run = IdleRun
    /\ log = <<>>
    /\ prev = NoPrev
    /\ tz \in TzOffsets
    /\ due = NoDue
    /\ sitemap = NoSitemap
    /\ reads = NoRead
    /\ cancel = FALSE
    /\ session = NoSessions
    /\ page = NoPage
    /\ cleaned = NoCleaning
    /\ chat_messages = <<>>
    /\ history = NoHistory

\* The refresh run stores a page.
StoreEntry ==
    /\ next_id < MaxSaves
    /\ \E content \in {c \in Contents : c.len > GateLen} :
        knowledge_base' = save_knowledge_item(knowledge_base, "web", "A", "T1",
                                              content).kb
    /\ next_id' = next_id + 1
    /\ UNCHANGED <<now, call, conn, run, log, prev, tz, due, sitemap,
                 reads, cancel, session,
                 page, cleaned, chat_messages, history>>

\* An hour passes.
Tick ==
    /\ now < MaxClock
    /\ now' = now + 1
    /\ UNCHANGED <<knowledge_base, next_id, call, conn, run, log, prev, tz, due, sitemap,
                 reads, cancel, session,
                 page, cleaned, chat_messages, history>>

\* The sidebar calls should_refresh_knowledge.
ShouldRefresh ==
    /\ \E query \in {"ok", "error"} :
        LET out == should_refresh_knowledge(query, knowledge_base)
        IN  due' = [called |-> TRUE, query |-> query,
                    read |-> IF query = "ok" THEN MaxLastUpdated(knowledge_base)
                             ELSE Null,
                    at |-> now, value |-> out.value, raised |-> out.raised]
    /\ UNCHANGED <<knowledge_base, next_id, now, call, conn, run, log, prev, tz, sitemap,
                 reads, cancel, session,
                 page, cleaned, chat_messages, history>>

NextStale == StoreEntry \/ Tick \/ ShouldRefresh

SpecStale == InitStale /\ [][NextStale]_vars

\* C7: should_refresh_knowledge returns true when there is no active entry,
\* true when the time now minus the newest active entry's last_updated, as
\* the store wrote it, is strictly more than 6 hours, and false otherwise
\* (false at exactly 6 hours).
C7_DueAfterSixHours ==
    (due.called /\ due.query = "ok" /\ due.read.fmt \in {"null", "sqlite"}) =>
        (due.value <=> (due.read = Null \/ due.at - due.read.t > RefreshHours))

\* C8: should_refresh_knowledge fails open: when the newest active timestamp
\* cannot be parsed, or the query raises, it returns true and raises nothing.
C8_FailsOpen ==
    (due.called /\ (due.query = "error" \/ ~ParseTimestamp(due.read).ok)) =>
        (due.value /\ ~due.raised)

\* The newest timestamp read, among several rows, is text that is no date.
C8_Witness ==
    /\ due.called /\ due.query = "ok"
    /\ due.read.fmt = "text"
    /\ Len(knowledge_base) >= 2
    /\ due.value

----------------------------------------------------------------------------
(* RMITWebScraper.get_sitemap_urls *)

\* A URL is a sequence of characters; the scheme and host are one of them.
Base == "https://www.rmit.edu.au"

UpperLetters ==
    <<"A", "B", "C", "D", "E", "F", "G", "H", "I", "J", "K", "L", "M",
      "N", "O", "P", "Q", "R", "S", "T", "U", "V", "W", "X", "Y", "Z">>
LowerLetters ==
    <<"a", "b", "c", "d", "e", "f", "g", "h", "i", "j", "k", "l", "m",
      "n", "o", "p", "q", "r", "s", "t", "u", "v", "w", "x", "y", "z">>

\* str.lower()
ToLower ==
    [c \in {UpperLetters[k] : k \in 1..Len(UpperLetters)} |->
        LowerLetters[CHOOSE k \in 1..Len(UpperLetters) : UpperLetters[k] = c]]
LowerChar(c) == IF c \in DOMAIN ToLower THEN ToLower[c] ELSE c
lower(str) == [k \in 1..Len(str) |-> LowerChar(str[k])]

\* keyword in text
Contains(keyword, text) ==
    \E k \in 1..(Len(text) - Len(keyword) + 1) :
        SubSeq(text, k, k + Len(keyword) - 1) = keyword

DefaultKeywords ==
    <<<<"s", "t", "u", "d", "e", "n", "t">>,
      <<"e", "n", "r", "o", "l">>,
      <<"c", "o", "u", "r", "s", "e">>,
      <<"p", "r", "o", "g", "r", "a", "m">>,
      <<"s", "t", "u", "d", "y">>,
      <<"a", "c", "a", "d", "e", "m", "i", "c">>,
      <<"f", "e", "e">>,
      <<"d", "e", "a", "d", "l", "i", "n", "e">>,
      <<"c", "a", "m", "p", "u", "s">>,
      <<"i", "n", "t", "e", "r", "n", "a", "t", "i", "o", "n", "a", "l">>>>

\* The keywords argument: None (no keywords) or a list of the caller's, in
\* lower case or with a capital.
KeywordArgs == {<<>>, <<<<"a", "b", "o", "u", "t">>>>, <<<<"F", "e", "e">>>>}

_get_fallback_urls ==
    <<<<Base, "/", "study-with-us">>,
      <<Base, "/", "enrolment">>,
      <<Base, "/", "students/my-course/important-dates">>,
      <<Base, "/", "students/support-services/study-support">>,
      <<Base, "/", "students/support-services/academic-support">>,
      <<Base, "/", "study-with-us/levels-of-study/undergraduate-study">>,
      <<Base, "/", "study-with-us/levels-of-study/postgraduate-study">>,
      <<Base, "/", "students/student-essentials/fees-and-payments">>,
      <<Base, "/", "students/student-essentials/important-dates">>,
      <<Base, "/", "about/schools-colleges">>>>

\* filtered_urls[:10]
MaxUrls == 10

\* The i-th <loc> of a sitemap: a fees page, or a page about the university.
FeesUrl(i) == <<Base, "/", "F", "e", "e", "s", "/", ToString(i)>>
AboutUrl(i) == <<Base, "/", "a", "b", "o", "u", "t", "/", ToString(i)>>

\* Where a URL stands in the document: in <url><loc> or in a <loc> elsewhere
\* (as in a sitemap index), either of them in the sitemap namespace or in
\* none, or outside every <loc> (in an attribute or in text).
SitemapNs == "{http://www.sitemaps.org/schemas/sitemap/0.9}"
Shapes == {"ns_url", "plain_url", "ns_loc", "plain_loc", "text"}

Entry(i, e) ==
    [shape |-> e[1], url |-> IF e[2] = "fees" THEN FeesUrl(i) ELSE AboutUrl(i)]
Documents(n, shapes) ==
    {[i \in 1..n |-> Entry(i, f[i])] : f \in [1..n -> shapes \X {"fees", "about"}]}

\* The sitemaps served: short ones mixing the shapes, and ones of one shape
\* long enough to exceed the cap on the result.
SitemapDocuments ==
    UNION {Documents(n, Shapes) : n \in 0..MaxMixedLen}
        \cup UNION {Documents(n, {"ns_url"}) : n \in (MaxMixedLen + 1)..MaxSitemapLen}

\* What requests.get and raise_for_status give for the sitemap.
SitemapStatuses == {"ok", "timeout", "connection_error", "http_404", "http_500"}

UrlsOf(entries) == [k \in 1..Len(entries) |-> entries[k].url]

\* root.findall(f'.//{ns}url') and url_elem.find(f'{ns}loc')
FindUrlLocs(entries, ns) ==
    UrlsOf(SelectSeq(entries,
        LAMBDA e : e.shape = (IF ns = SitemapNs THEN "ns_url" ELSE "plain_url")))

\* root.findall(f'.//{ns}loc')
FindLocs(entries, ns) ==
    UrlsOf(SelectSeq(entries,
        LAMBDA e : e.shape \in (IF ns = SitemapNs THEN {"ns_url", "ns_loc"}
                                ELSE {"plain_url", "plain_loc"})))

\* re.findall(r'<loc>(https://[^<]+)</loc>', response.text)
FindLocPattern(entries) ==
    UrlsOf(SelectSeq(entries, LAMBDA e : e.shape # "text"))

\* re.findall(r'https://www\.rmit\.edu\.au[^\s<>"\']+', response.text)
FindDomainPattern(entries) ==
    UrlsOf(SelectSeq(entries, LAMBDA e : e.url[1] = Base /\ Len(e.url) > 1))

namespaces_bug == <<"", SitemapNs, SitemapNs>>
namespaces == <<SitemapNs, SitemapNs, "">>

\* for ns in namespaces: ... from turn k on, with the URLs found so far.
RECURSIVE NamespaceLoop(_, _, _)
NamespaceLoop(entries, k, all_urls) ==
    IF k > Len(namespaces) THEN all_urls
    ELSE LET after_url == all_urls \o FindUrlLocs(entries, namespaces[k])
             after_loc == after_url \o FindLocs(entries, namespaces[k])
         IN  IF after_url # <<>> THEN after_url
             ELSE IF after_loc # <<>> THEN after_loc
             ELSE NamespaceLoop(entries, k + 1, after_loc)

\* The URLs the parsing hands to _filter_urls.
ExtractUrls(well_formed, entries) ==
    IF ~well_formed THEN FindLocPattern(entries)
    ELSE LET all_urls == NamespaceLoop(entries, 1, <<>>)
         IN  IF all_urls = <<>> THEN FindDomainPattern(entries) ELSE all_urls

\* any(keyword in url.lower() for keyword in keywords)
MatchesAny(url, keywords) ==
    LET url_lower == lower(url)
    IN  \E k \in 1..Len(keywords) : Contains(keywords[k], url_lower)

\* filtered_urls[:10]
Head10_bug(filtered_urls) == filtered_urls
Head10(filtered_urls) ==
    SubSeq(filtered_urls, 1,
           IF Len(filtered_urls) < MaxUrls THEN Len(filtered_urls) ELSE MaxUrls)

\* if not filtered_urls: return self._get_fallback_urls()
OrFallback_bug(filtered_urls) == filtered_urls
OrFallback(filtered_urls) ==
    IF filtered_urls = <<>> THEN _get_fallback_urls ELSE filtered_urls

_filter_urls(all_urls, keywords) ==
    LET kws == IF keywords = <<>> THEN DefaultKeywords ELSE keywords
        filtered_urls == SelectSeq(all_urls, LAMBDA url : MatchesAny(url, kws))
    IN  Head10(OrFallback(filtered_urls))

\* get_sitemap_urls: every exception raised inside, that of a failed fetch
\* included, ends in the fallback list.
get_sitemap_urls(status, well_formed, entries, keywords) ==
    IF status # "ok"
    THEN [all_urls |-> <<>>, result |-> _get_fallback_urls, raised |-> FALSE]
    ELSE LET all_urls == ExtractUrls(well_formed, entries)
         IN  [all_urls |-> all_urls, result |-> _filter_urls(all_urls, keywords),
              raised |-> FALSE]

\* The sitemap the site is about to serve and the keywords of the call.
InitSitemap ==
    /\ InitStore
    /\ conn = [c \in {} |-> IdleConn]
    /\ run = IdleRun
    /\ log = <<>>
    /\ prev = NoPrev
    /\ tz = 0
    /\ due = NoDue
    /\ reads = NoRead
    /\ cancel = FALSE
    /\ session = NoSessions
    /\ page = NoPage
    /\ cleaned = NoCleaning
    /\ chat_messages = <<>>
    /\ history = NoHistory
    /\ \E status \in SitemapStatuses, well_formed \in BOOLEAN,
          entries \in SitemapDocuments, keywords \in KeywordArgs :
        /\ status # "ok" => (entries = <<>> /\ well_formed /\ keywords = <<>>)
        /\ (Len(entries) > MaxMixedLen) => (well_formed /\ keywords = <<>>)
        /\ sitemap = [NoSitemap EXCEPT !.status = status,
                                       !.well_formed = well_formed,
                                       !.entries = entries,
                                       !.keywords = keywords]

GetSitemapUrls ==
    /\ ~sitemap.called
    /\ LET out == get_sitemap_urls(sitemap.status, sitemap.well_formed,
                                   sitemap.entries, sitemap.keywords)
       IN  sitemap' = [sitemap EXCEPT !.called = TRUE, !.all_urls = out.all_urls,
                                      !.result = out.result, !.raised = out.raised]
    /\ UNCHANGED <<knowledge_base, next_id, now, call, conn, run, log, prev, tz, due,
                 reads, cancel, session,
                 page, cleaned, chat_messages, history>>

NextSitemap == GetSitemapUrls

SpecSitemap == InitSitemap /\ [][NextSitemap]_vars

\* The keywords the call filters by, and the URLs of the document that
\* contain one of them when letter case in the URL is ignored.
KeywordsUsed ==
    IF sitemap.keywords = <<>> THEN DefaultKeywords ELSE sitemap.keywords
IsMatch(url) == MatchesAny(url, KeywordsUsed)
PositionOf(url) ==
    CHOOSE k \in 1..Len(sitemap.entries) : sitemap.entries[k].url = url

\* C9: get_sitemap_urls never raises and never returns an empty sequence:
\* for every outcome of the fetch and every document it returns a non-empty
\* list of matching URLs of the document or the 10-element fallback list.
C9_NeverEmptyNeverRaises ==
    sitemap.called =>
        /\ ~sitemap.raised
        /\ sitemap.result # <<>>
        /\ Len(_get_fallback_urls) = 10
        /\ \/ sitemap.result = _get_fallback_urls
           \/ \A i \in 1..Len(sitemap.result) :
                 /\ IsMatch(sitemap.result[i])
                 /\ \E k \in 1..Len(sitemap.entries) :
                        sitemap.entries[k].url = sitemap.result[i]

\* The sitemap was fetched and parsed and held URLs, none with a keyword.
C9_Witness ==
    /\ sitemap.called
    /\ sitemap.status = "ok"
    /\ sitemap.all_urls # <<>>
    /\ sitemap.result = _get_fallback_urls

\* C10: the result has at most 10 elements and, when it is not the fallback
\* list, it is the first 10 (or fewer) keyword-matching URLs of the extracted
\* sequence, in the order in which they stand in the sitemap.
C10_FirstTenMatchesInOrder ==
    sitemap.called =>
        /\ Len(sitemap.result) <= 10
        /\ sitemap.result # _get_fallback_urls =>
            LET matches == SelectSeq(sitemap.all_urls, IsMatch)
            IN  /\ Len(sitemap.result) = (IF Len(matches) < 10 THEN Len(matches) ELSE 10)
                /\ \A i \in 1..Len(sitemap.result) : sitemap.result[i] = matches[i]
                /\ \A i, j \in 1..Len(sitemap.result) :
                       i < j => PositionOf(sitemap.result[i]) < PositionOf(sitemap.result[j])

\* More than 10 URLs of the sitemap match, after one that does not.
C10_Witness ==
    /\ sitemap.called
    /\ Len(SelectSeq(sitemap.all_urls, IsMatch)) > 10
    /\ ~IsMatch(sitemap.all_urls[1])
    /\ Len(sitemap.result) = 10
    /\ sitemap.result # _get_fallback_urls

\* A URL of the document is kept when the result holds it; it contains a
\* keyword, letter case ignored, when the lower-cased URL contains the
\* lower-cased keyword.
KeptByFilter(url) == \E i \in 1..Len(sitemap.result) : sitemap.result[i] = url
ContainsIgnoringCase(url) ==
    \E k \in 1..Len(KeywordsUsed) : Contains(lower(KeywordsUsed[k]), lower(url))

\* C11: for every keyword list, keywords with upper-case letters included, a
\* URL of the sitemap is kept by the filter if and only if it contains one
\* of the keywords when letter case is ignored in the URL and in the keyword
\* (stated for sitemaps of at most 10 URLs, where the cap drops nothing).
C11_KeptIffContainsIgnoringCase ==
    (sitemap.called /\ sitemap.status = "ok" /\ Len(sitemap.all_urls) <= MaxUrls) =>
        \A k \in 1..Len(sitemap.all_urls) :
            KeptByFilter(sitemap.all_urls[k]) <=> ContainsIgnoringCase(sitemap.all_urls[k])

\* What the strategies that come before the generic pattern find in the
\* document served: the tree walk when it parses, the <loc> text pattern
\* when it does not.
EarlierYield ==
    IF sitemap.well_formed THEN NamespaceLoop(sitemap.entries, 1, <<>>)
    ELSE FindLocPattern(sitemap.entries)

\* C24: the generic domain-URL pattern is applied whenever the earlier
\* parsing yields no URL, whichever strategy ran: when the document parsed
\* and held no <loc>, and when it did not parse and the <loc> text pattern
\* found nothing; the fallback list is returned only when the generic match
\* too gives nothing that passes the filter.
C24_GenericMatchWhenNothingParsed ==
    (sitemap.called /\ sitemap.status = "ok" /\ EarlierYield = <<>>) =>
        /\ sitemap.all_urls = FindDomainPattern(sitemap.entries)
        /\ sitemap.result = _get_fallback_urls =>
                \A k \in 1..Len(FindDomainPattern(sitemap.entries)) :
                    ~IsMatch(FindDomainPattern(sitemap.entries)[k])

\* The first of a list of sources that yields a URL; none when none does.
RECURSIVE FirstYield(_, _)
FirstYield(sources, k) ==
    IF k > Len(sources) THEN <<>>
    ELSE IF sources[k] # <<>> THEN sources[k]
    ELSE FirstYield(sources, k + 1)

AnyLoc(entries) == UrlsOf(SelectSeq(entries, LAMBDA e : e.shape # "text"))

\* C25 as stated: when the document parses, the URLs are those of the
\* first source that yields any, in the order: <url><loc> in the sitemap
\* namespace, <url><loc> in no namespace, any <loc> anywhere in the tree.
C25_ClaimedSourceOrder ==
    (sitemap.called /\ sitemap.status = "ok" /\ sitemap.well_formed
        /\ AnyLoc(sitemap.entries) # <<>>) =>
        sitemap.all_urls =
            FirstYield(<<FindUrlLocs(sitemap.entries, SitemapNs),
                         FindUrlLocs(sitemap.entries, ""),
                         AnyLoc(sitemap.entries)>>, 1)

\* C25, amended: the order is: <url><loc> in the sitemap namespace, any
\* <loc> of that namespace anywhere in the tree, <url><loc> in no
\* namespace, any <loc> of no namespace anywhere in the tree; a later
\* source is not consulted once an earlier one yields a URL.
C25_SourceOrderPerNamespace ==
    (sitemap.called /\ sitemap.status = "ok" /\ sitemap.well_formed
        /\ AnyLoc(sitemap.entries) # <<>>) =>
        sitemap.all_urls =
            FirstYield(<<FindUrlLocs(sitemap.entries, SitemapNs),
                         FindLocs(sitemap.entries, SitemapNs),
                         FindUrlLocs(sitemap.entries, ""),
                         FindLocs(sitemap.entries, "")>>, 1)

\* A document that parses and holds a <loc> of the sitemap namespace
\* outside every <url> together with a <url><loc> of no namespace.
C25_Witness ==
    /\ sitemap.called /\ sitemap.status = "ok" /\ sitemap.well_formed
    /\ \E i, j \in 1..Len(sitemap.entries) :
        /\ sitemap.entries[i].shape = "ns_loc"
        /\ sitemap.entries[j].shape = "plain_url"
    /\ Len(sitemap.all_urls) = 1

----------------------------------------------------------------------------
(* A run, a reader of the table and a request to stop *)

\* One dict of the list get_knowledge_base returns: five columns of a row.
Item_bug(r) ==
    [source_type |-> r.source_type, source_url |-> r.source_url,
     title |-> r.title, content |-> NoContent, last_updated |-> r.last_updated]
Item(r) ==
    [source_type |-> r.source_type, source_url |-> r.source_url,
     title |-> r.title, content |-> r.content, last_updated |-> r.last_updated]

\* def get_knowledge_base(self, limit: int = 100)
DefaultLimit == 100

\* The same statement without its ORDER BY: the first rows of the table.
get_knowledge_base_table_order(kb, limit) ==
    LET active == SelectSeq(kb, LAMBDA r : r.is_active = 1)
        m == IF Len(active) < limit THEN Len(active) ELSE limit
    IN  {[k \in 1..m |-> Item(active[k])]}

\* SELECT ... WHERE is_active = 1 ORDER BY last_updated DESC LIMIT ?: the
\* lists the statement can return, rows of equal last_updated standing in
\* any order. The statement reads what is committed as it runs.
get_knowledge_base(kb, limit) ==
    LET active == SelectSeq(kb, LAMBDA r : r.is_active = 1)
        n == Len(active)
        orders ==
            {p \in [1..n -> 1..n] :
                /\ \A i, j \in 1..n : i # j => p[i] # p[j]
                /\ \A i, j \in 1..n :
                       i < j => ~SqlLess(active[p[i]].last_updated,
                                         active[p[j]].last_updated)}
        m == IF n < limit THEN n ELSE limit
    IN  {[k \in 1..m |-> Item(active[p[k]])] : p \in orders}

\* The table a run can find: empty, or holding a page stored earlier.
EarlierContent == [text |-> 4, len |-> GateLen + 1]
StoredBefore ==
    InsertRow(<<>>, [tag |-> "uuid", n |-> 0], "web", "C", "T1",
              EarlierContent, md5(EarlierContent))

InitReaders ==
    /\ next_id = 0
    /\ now = 0
    /\ call = NoCall
    /\ knowledge_base \in {<<>>, StoredBefore}
    /\ InitRest

\* Another session's script calls get_knowledge_base, whether or not a run
\* is going on.
GetKnowledgeBase ==
    /\ \E items \in get_knowledge_base(knowledge_base, DefaultLimit) :
        reads' = [called |-> TRUE, during |-> (run.pc = "loop"),
                  limit |-> DefaultLimit, table |-> knowledge_base, items |-> items]
    /\ UNCHANGED <<knowledge_base, next_id, now, call, conn, run, log, prev, tz, due,
                   sitemap, cancel, session,
                 page, cleaned, chat_messages, history>>

\* The application is shutting down, or the user wants the run to stop.
\* Nothing in refresh_knowledge_base_no_cache reads such a request.
RequestCancel ==
    /\ run.pc = "loop"
    /\ ~cancel
    /\ cancel' = TRUE
    /\ UNCHANGED <<knowledge_base, next_id, now, call, conn, run, log, prev, tz, due,
                   sitemap, reads, session,
                 page, cleaned, chat_messages, history>>

NextReaders ==
    StartRefreshOnce \/ RefreshStep \/ FinishRefresh \/ GetKnowledgeBase \/ RequestCancel

SpecReaders == InitReaders /\ [][NextReaders]_vars

\* The dicts of the last read; a dict shows a row when it has the row's
\* five columns, whole.
ReadItems == {reads.items[k] : k \in 1..Len(reads.items)}
Shows(it, r) ==
    /\ it.source_type = r.source_type /\ it.source_url = r.source_url
    /\ it.title = r.title /\ it.content = r.content
    /\ it.last_updated = r.last_updated
ReadIsActiveSetOf(kb) ==
    /\ \A it \in ReadItems : \E r \in ActiveRows(kb) : Shows(it, r)
    /\ \A r \in ActiveRows(kb) : \E it \in ReadItems : Shows(it, r)

\* C16 as stated: a get_knowledge_base read made while a run is going on
\* returns the active set as it was before the run or as it is after the
\* run, never a partially committed entry.
C16_PreOrPostRunSet ==
    (reads.called /\ reads.during /\ run.pc = "done") =>
        ReadIsActiveSetOf(run.start) \/ ReadIsActiveSetOf(knowledge_base)

\* C16, amended: such a read returns the active set as it was before the
\* run together with the rows the run has committed up to the read, the
\* first k rows the run adds for some k; every entry returned is a whole
\* committed row.
C16_CommittedPrefix ==
    (reads.called /\ reads.during) =>
        \E k \in Len(run.start)..Len(knowledge_base) :
            ReadIsActiveSetOf(SubSeq(knowledge_base, 1, k))

\* A read made during a run that returned more than the table held before
\* the run and less than it holds after it.
C16_Witness ==
    /\ reads.called /\ reads.during /\ run.pc = "done"
    /\ run.start # <<>>
    /\ Cardinality(ReadItems) > Cardinality(ActiveRows(run.start))
    /\ Cardinality(ReadItems) < Cardinality(ActiveRows(knowledge_base))

\* C18: once a run has been asked to stop, it starts no fetch for a further
\* URL (a store write in progress still completes).
C18_NoFetchAfterCancel ==
    [][(cancel /\ run.pc = "loop") => Len(log') = Len(log)]_vars

----------------------------------------------------------------------------
(* Refresh runs started by several browser sessions *)

\* Streamlit runs the script of every browser session in a thread of its
\* own; all of them use the one database file.
Sessions == {"s1", "s2"}
IdleSession ==
    [pc |-> "idle", trigger |-> None, urls |-> <<>>, i |-> 0, success_count |-> 0]

InitSessions ==
    /\ InitStore
    /\ conn = [c \in {} |-> IdleConn]
    /\ run = IdleRun
    /\ log = <<>>
    /\ prev = NoPrev
    /\ tz = 0
    /\ due = NoDue
    /\ sitemap = NoSitemap
    /\ reads = NoRead
    /\ cancel = FALSE
    /\ session = [s \in Sessions |-> IdleSession]
    /\ page = NoPage
    /\ cleaned = NoCleaning
    /\ chat_messages = <<>>
    /\ history = NoHistory

\* load_enhanced_knowledge_base in session s: get_knowledge_base returns an
\* empty list, so the script calls refresh_knowledge_base_no_cache. The
\* function is wrapped in st.cache_data, taken here to compute for one
\* session at a time.
LoadEmpty(s) ==
    /\ session[s].pc = "idle"
    /\ get_knowledge_base(knowledge_base, DefaultLimit) = {<<>>}
    /\ \A t \in Sessions : session[t].trigger = "auto" => session[t].pc # "loop"
    /\ \E urls \in UrlLists :
        session' = [session EXCEPT ![s] = [pc |-> "loop", trigger |-> "auto",
                                           urls |-> urls, i |-> 1, success_count |-> 0]]
    /\ UNCHANGED <<knowledge_base, next_id, now, call, conn, run, log, prev, tz, due,
                   sitemap, reads, cancel,
                 page, cleaned, chat_messages, history>>

\* The user of session s presses "Refresh Knowledge Base": the script calls
\* refresh_knowledge_base, which tests and takes no lock or flag.
PressRefresh(s) ==
    /\ session[s].pc = "idle"
    /\ \E urls \in UrlLists :
        session' = [session EXCEPT ![s] = [pc |-> "loop", trigger |-> "button",
                                           urls |-> urls, i |-> 1, success_count |-> 0]]
    /\ UNCHANGED <<knowledge_base, next_id, now, call, conn, run, log, prev, tz, due,
                   sitemap, reads, cancel,
                 page, cleaned, chat_messages, history>>

\* One turn of the loop of the run of session s.
SessionTurn(s) ==
    /\ session[s].pc = "loop"
    /\ session[s].i <= Len(session[s].urls)
    /\ \E fetch \in Fetches :
        LET page_data == scrape_page(session[s].urls[session[s].i], fetch)
            out == save_knowledge_item(knowledge_base, "web", page_data.url,
                                       page_data.title, page_data.content)
        IN  IF PassesGate(page_data)
            THEN /\ knowledge_base' = out.kb
                 /\ next_id' = next_id + 1
                 /\ session' = [session EXCEPT
                        ![s].i = session[s].i + 1,
                        ![s].success_count = Tally(session[s].success_count, out.result)]
            ELSE /\ session' = [session EXCEPT ![s] = Continue(session[s])]
                 /\ UNCHANGED <<knowledge_base, next_id>>
    /\ UNCHANGED <<now, call, conn, run, log, prev, tz, due, sitemap, reads, cancel,
                 page, cleaned, chat_messages, history>>

\* The run of session s has gone through its list and returns.
SessionFinish(s) ==
    /\ session[s].pc = "loop"
    /\ session[s].i > Len(session[s].urls)
    /\ session' = [session EXCEPT ![s].pc = "done"]
    /\ UNCHANGED <<knowledge_base, next_id, now, call, conn, run, log, prev, tz, due,
                   sitemap, reads, cancel,
                 page, cleaned, chat_messages, history>>

NextSessions ==
    \E s \in Sessions :
        LoadEmpty(s) \/ PressRefresh(s) \/ SessionTurn(s) \/ SessionFinish(s)

SpecSessions == InitSessions /\ [][NextSessions]_vars

\* C15: at most one refresh run is executing at any time: a refresh asked
\* for while a run is in flight, by the auto-refresh on an empty table or by
\* the Refresh button of any session, does nothing or waits.
C15_AtMostOneRun ==
    Cardinality({s \in Sessions : session[s].pc = "loop"}) <= 1

----------------------------------------------------------------------------
(* A run on a table that has aged *)

\* A page of URL A stored by an earlier run, at hour 0.
StoredEarlier ==
    InsertRow(<<>>, [tag |-> "uuid", n |-> 0], "web", "A", "T1",
              [text |-> 1, len |-> GateLen + 1], md5([text |-> 1, len |-> GateLen + 1]))

\* The host's clock is on UTC.
InitAging ==
    /\ next_id = 0
    /\ now = 0
    /\ call = NoCall
    /\ knowledge_base \in {<<>>, StoredEarlier}
    /\ InitRest

\* The clock counts whole hours; a run over at most 10 pages, each fetched
\* with a timeout of 15 seconds, is over within the hour it started in.
TickOutsideRun == run.pc # "loop" /\ Tick

NextAging ==
    StartRefreshOnce \/ RefreshStep \/ FinishRefresh \/ TickOutsideRun \/ ShouldRefresh

SpecAging == InitAging /\ [][NextAging]_vars

\* C23: after a run that completes without error, also one in which every
\* page is a duplicate and nothing is added, should_refresh_knowledge
\* returns false until 6 hours have passed: it returns false as the run
\* returns.
C23_FreshAfterCompletedRun ==
    [][(/\ run.pc = "loop" /\ run'.pc = "done"
        /\ \A i \in 1..Len(log) : log[i].result = Duplicate \/ log[i].result.tag = "uuid")
            => ~should_refresh_knowledge("ok", knowledge_base').value]_vars

----------------------------------------------------------------------------
(* The script of a session: chat input, load_enhanced_knowledge_base, sidebar *)

\* The questions a user types, by what is_rmit_related says of them.
Questions == {"on_topic", "off_topic"}
is_rmit_related(question) == question = "on_topic"

\* for item in knowledge_base[:10]
PromptItems == 10
knowledge_section(db_knowledge) ==
    SubSeq(db_knowledge, 1,
           IF Len(db_knowledge) < PromptItems THEN Len(db_knowledge) ELSE PromptItems)

\* What leaves refresh_knowledge_base_no_cache as an exception: nothing.
\* The loop body ends in "except Exception: continue" and the function body
\* in "except Exception as e: st.error(...)".
refresh_raises_bug(run_log) == \E i \in 1..Len(run_log) : run_log[i].result = StoreError
refresh_raises(run_log) == FALSE

\* build_enhanced_prompt once load_enhanced_knowledge_base has returned.
build_enhanced_prompt(db_knowledge, raised) ==
    IF raised THEN [built |-> FALSE, raised |-> TRUE, text |-> None, knowledge_section |-> <<>>]
    ELSE [built |-> TRUE, raised |-> FALSE, text |-> "PROMPT",
          knowledge_section |-> knowledge_section(db_knowledge)]

\* The user sends a question. An off-topic one gives "OFF_TOPIC" at once;
\* for the others load_enhanced_knowledge_base reads the table (line 434).
Ask ==
    /\ page.pc = "idle"
    /\ run.pc # "loop"
    /\ \E question \in Questions :
        IF ~is_rmit_related(question)
        THEN page' = [page EXCEPT !.prompt = [built |-> TRUE, raised |-> FALSE,
                                               text |-> "OFF_TOPIC",
                                               knowledge_section |-> <<>>]]
        ELSE \E items \in get_knowledge_base(knowledge_base, DefaultLimit) :
                page' = [page EXCEPT !.pc = "loading", !.db_knowledge = items,
                                     !.prompt = NoPrompt]
    /\ UNCHANGED <<knowledge_base, next_id, now, call, conn, run, log, prev, tz, due,
                   sitemap, reads, cancel, session, cleaned, chat_messages, history>>

\* A run starts from the script: the script goes from one place to another
\* and the run begins as in StartRefresh, at most max_runs times.
StartFromPage(from, to, max_runs) ==
    /\ page.pc = from
    /\ run.pc \in {"idle", "done"}
    /\ prev.runs + (IF run.pc = "done" THEN 1 ELSE 0) < max_runs
    /\ \E urls \in UrlLists :
        run' = [pc |-> "loop", urls |-> urls, i |-> 1, success_count |-> 0,
                start |-> knowledge_base, message |-> NoMessage]
    /\ log' = <<>>
    /\ prev' = IF run.pc = "done"
               THEN [urls |-> run.urls, log |-> log, kb |-> knowledge_base,
                     runs |-> prev.runs + 1]
               ELSE prev
    /\ page' = [page EXCEPT !.pc = to,
                            !.kb_just_refreshed =
                                IF to = "button_refresh" THEN FALSE
                                ELSE page.kb_just_refreshed]
    /\ UNCHANGED <<knowledge_base, next_id, now, call, conn, tz, due, sitemap,
                   reads, cancel, session, cleaned, chat_messages, history>>

\* if not db_knowledge: the test that sends load_enhanced_knowledge_base
\* into a refresh. The age of the entries has no part in it.
needs_refresh_when_stale(db_knowledge) ==
    db_knowledge = <<>> \/ should_refresh_knowledge("ok", knowledge_base).value
needs_refresh(db_knowledge) == db_knowledge = <<>>

\* if not db_knowledge: refresh_knowledge_base_no_cache()
AutoRefreshOnce ==
    needs_refresh(page.db_knowledge) /\ StartFromPage("loading", "auto_refresh", 1)

\* db_knowledge = db_manager.get_knowledge_base() after the run; the loaded
\* list goes to build_enhanced_prompt.
AfterAutoRefresh ==
    /\ page.pc = "auto_refresh"
    /\ run.pc = "done"
    /\ \E items \in get_knowledge_base(knowledge_base, DefaultLimit) :
        page' = [page EXCEPT !.pc = "idle", !.db_knowledge = items,
                             !.prompt = build_enhanced_prompt(items, refresh_raises(log))]
    /\ UNCHANGED <<knowledge_base, next_id, now, call, conn, run, log, prev, tz, due,
                   sitemap, reads, cancel, session, cleaned, chat_messages, history>>

\* The table was not empty: load_enhanced_knowledge_base returns what it read.
ReturnLoaded ==
    /\ page.pc = "loading"
    /\ ~needs_refresh(page.db_knowledge)
    /\ page' = [page EXCEPT !.pc = "idle",
                            !.prompt = build_enhanced_prompt(page.db_knowledge, FALSE)]
    /\ UNCHANGED <<knowledge_base, next_id, now, call, conn, run, log, prev, tz, due,
                   sitemap, reads, cancel, session, cleaned, chat_messages, history>>

NextPrompt ==
    Ask \/ AutoRefreshOnce \/ RefreshStepFaults \/ FinishRefresh
        \/ AfterAutoRefresh \/ ReturnLoaded

SpecPrompt == InitRefresh /\ [][NextPrompt]_vars

\* C21: an empty knowledge base never blocks the chat: for an on-topic
\* question asked while the table is empty, whatever the automatic refresh
\* meets (no page scraped, a store error inside the run), the script is
\* never stuck in the load, nothing is raised, and the prompt is built, with
\* an empty knowledge section when the table is still empty.
C21_EmptyStoreNeverBlocksChat ==
    /\ ~page.prompt.raised
    /\ (page.pc = "auto_refresh" /\ run.pc = "loop") =>
            ENABLED (RefreshStepFaults \/ FinishRefresh)
    /\ (page.pc = "auto_refresh" /\ run.pc = "done") => ENABLED AfterAutoRefresh
    /\ (page.prompt.built /\ page.prompt.text = "PROMPT") =>
            /\ page.prompt.knowledge_section = knowledge_section(page.db_knowledge)
            /\ ActiveRows(knowledge_base) = {} => page.prompt.knowledge_section = <<>>

\* The prompt was built on an empty table after a run in which the store
\* raised and no page was stored.
C21_Witness ==
    /\ page.prompt.built /\ page.prompt.text = "PROMPT"
    /\ page.prompt.knowledge_section = <<>>
    /\ run.pc = "done"
    /\ knowledge_base = <<>>
    /\ \E i \in 1..Len(log) : log[i].result = StoreError
    /\ \E i \in 1..Len(log) : log[i].fetch = "timeout"

\* The user presses "Refresh Knowledge Base": the kb_just_refreshed flag is
\* deleted and refresh_knowledge_base runs.
PressRefreshOnce == StartFromPage("idle", "button_refresh", 1)

\* refresh_knowledge_base returns: with or without new items it sets
\* st.session_state.kb_just_refreshed, and the script reruns.
AfterButtonRefresh ==
    /\ page.pc = "button_refresh"
    /\ run.pc = "done"
    /\ page' = [page EXCEPT !.pc = "idle", !.kb_just_refreshed = TRUE]
    /\ UNCHANGED <<knowledge_base, next_id, now, call, conn, run, log, prev, tz, due,
                   sitemap, reads, cancel, session, cleaned, chat_messages, history>>

\* The sidebar of a table that is not empty: is_outdated =
\* should_refresh_knowledge(), and the warning is shown when it is true and
\* the session has not just refreshed.
Sidebar ==
    /\ page.pc = "idle"
    /\ ActiveRows(knowledge_base) # {}
    /\ page' = [page EXCEPT !.warning =
                    /\ should_refresh_knowledge("ok", knowledge_base).value
                    /\ ~page.kb_just_refreshed]
    /\ UNCHANGED <<knowledge_base, next_id, now, call, conn, run, log, prev, tz, due,
                   sitemap, reads, cancel, session, cleaned, chat_messages, history>>

NextPage ==
    Ask \/ AutoRefreshOnce \/ RefreshStep \/ FinishRefresh \/ AfterAutoRefresh
        \/ ReturnLoaded \/ PressRefreshOnce \/ AfterButtonRefresh \/ Sidebar
        \/ TickOutsideRun

SpecPage == InitAging /\ [][NextPage]_vars

\* C29: a run starts automatically only when the table has no active entry
\* as the knowledge base is loaded; when it has one, the load starts no run
\* however old the newest entry is, and what should_refresh_knowledge
\* returns decides the sidebar warning and nothing else. Any other run
\* starts with a press of the Refresh button.
C29_AutoRefreshOnlyWhenEmpty ==
    [][/\ (run.pc # "loop" /\ run'.pc = "loop") =>
            \/ /\ page.pc = "loading" /\ page'.pc = "auto_refresh"
               /\ page.db_knowledge = <<>>
               /\ ActiveRows(knowledge_base) = {}
            \/ page.pc = "idle" /\ page'.pc = "button_refresh"
       /\ (page.pc = "loading" /\ page.db_knowledge # <<>>) => run' = run
       /\ page'.warning # page.warning =>
            /\ run' = run /\ knowledge_base' = knowledge_base
            /\ page'.pc = page.pc]_vars

\* The prompt was built from a table whose newest entry is more than 6
\* hours old; the sidebar has shown the warning; no run has started.
C29_Witness ==
    /\ page.prompt.built /\ page.prompt.text = "PROMPT"
    /\ page.prompt.knowledge_section # <<>>
    /\ should_refresh_knowledge("ok", knowledge_base).value
    /\ page.warning
    /\ run.pc = "idle"

-----------------------------------------------------------------------------
(* get_knowledge_base with a limit *)

\* A row that was taken out of use in the database: the column is_active is
\* there for it, and no statement of the application writes a 0 into it.
RetiredContent == [text |-> 5, len |-> GateLen + 1]
RetiredRow ==
    [kb_id |-> [tag |-> "uuid", n |-> 0], source_type |-> "manual",
     source_url |-> "B", title |-> "T2", content |-> RetiredContent,
     last_updated |-> [fmt |-> "sqlite", t |-> MaxReadClock],
     content_hash |-> md5(RetiredContent), is_active |-> 0]

\* The limits a caller passes: fewer rows than the table can hold, and the
\* default.
Limits == {1, 2, DefaultLimit}

InitLimit ==
    /\ knowledge_base \in {<<>>, <<RetiredRow>>}
    /\ next_id = 0
    /\ now = 0
    /\ call = NoCall
    /\ InitRest

\* A page is stored: save_knowledge_item has no length gate of its own.
StorePage ==
    /\ next_id < MaxSaves
    /\ \E content \in Contents :
        knowledge_base' = save_knowledge_item(knowledge_base, "web", "A", "T1",
                                              content).kb
    /\ next_id' = next_id + 1
    /\ UNCHANGED <<now, call, conn, run, log, prev, tz, due, sitemap, reads, cancel,
                   session, page, cleaned, chat_messages, history>>

\* An hour passes between two calls.
TickLimit == now < MaxReadClock /\ Tick

\* get_knowledge_base(limit)
GetKnowledgeBaseLimit ==
    /\ \E limit \in Limits :
        \E items \in get_knowledge_base(knowledge_base, limit) :
            reads' = [called |-> TRUE, during |-> FALSE, limit |-> limit,
                      table |-> knowledge_base, items |-> items]
    /\ UNCHANGED <<knowledge_base, next_id, now, call, conn, run, log, prev, tz, due,
                   sitemap, cancel, session, page, cleaned, chat_messages, history>>

NextLimit == StorePage \/ TickLimit \/ GetKnowledgeBaseLimit

SpecLimit == InitLimit /\ [][NextLimit]_vars

\* The positions of the table that the k-th dict of the last read can stand
\* for.
ShownBy(k) ==
    {i \in 1..Len(reads.table) :
        reads.table[i].is_active = 1 /\ Shows(reads.items[k], reads.table[i])}

\* C22: get_knowledge_base(limit) returns entries with is_active = 1 only,
\* at most limit of them, from the newest last_updated to the oldest; when
\* the table has more than limit active entries, the ones returned are the
\* limit most recently updated.
C22_NewestActiveUpToLimit ==
    reads.called =>
        LET n == Len(reads.items)
            active == {i \in 1..Len(reads.table) : reads.table[i].is_active = 1}
        IN  /\ n <= reads.limit
            /\ n = (IF Cardinality(active) < reads.limit
                    THEN Cardinality(active) ELSE reads.limit)
            /\ \A k \in 1..n : ShownBy(k) # {}
            /\ \A j, k \in 1..n : j # k => reads.items[j] # reads.items[k]
            /\ \A j, k \in 1..n :
                   j < k => reads.items[j].last_updated.t >= reads.items[k].last_updated.t
            /\ \A i \in active :
                   (\A k \in 1..n : i \notin ShownBy(k)) =>
                       \A k \in 1..n :
                           reads.items[k].last_updated.t >= reads.table[i].last_updated.t

\* A read with limit 2 of a table of three active entries written at
\* different hours, and a retired one newer than all of them.
C22_Witness ==
    /\ reads.called /\ reads.limit = 2 /\ Len(reads.items) = 2
    /\ Cardinality({i \in 1..Len(reads.table) : reads.table[i].is_active = 1}) = 3
    /\ \E i \in 1..Len(reads.table) : reads.table[i].is_active = 0
    /\ reads.items[1].last_updated.t > reads.items[2].last_updated.t
    /\ \E i \in 1..Len(reads.table) :
           /\ reads.table[i].is_active = 1
           /\ reads.table[i].last_updated.t < reads.items[2].last_updated.t

-----------------------------------------------------------------------------
(* scrape_page: the cleaning of the text *)

\* A text is its sequence of characters. The characters of a page: a
\* letter, which \w matches; a space and a newline, which \s matches; a
\* comma, which the allow-list names; and a '#', which none of them match.
WordChars == {"a"}
Whitespace == {" ", "\n"}
Punctuation == {","}
Chars == WordChars \cup Whitespace \cup Punctuation \cup {"#"}

\* content_text before the cleaning: the texts of the elements, each
\* stripped by get_text(strip=True) and followed by "\n"; or nothing.
PageTexts ==
    {<<>>} \cup
    UNION {{t \in [1..n -> Chars] : t[1] \notin Whitespace /\ t[n] = "\n"} :
              n \in 2..MaxTextLen}

\* content_text.strip()
strip(text) ==
    LET inked == {i \in 1..Len(text) : text[i] \notin Whitespace}
    IN  IF inked = {} THEN <<>>
        ELSE SubSeq(text, CHOOSE i \in inked : \A j \in inked : i <= j,
                          CHOOSE i \in inked : \A j \in inked : i >= j)

\* re.sub(r'\s+', ' ', text): every maximal run of whitespace becomes one
\* space.
RECURSIVE CollapseWhitespace(_)
CollapseWhitespace(text) ==
    IF text = <<>> THEN <<>>
    ELSE IF Head(text) \in Whitespace
         THEN IF Len(text) > 1 /\ text[2] \in Whitespace
              THEN CollapseWhitespace(Tail(text))
              ELSE <<" ">> \o CollapseWhitespace(Tail(text))
         ELSE <<Head(text)>> \o CollapseWhitespace(Tail(text))

\* re.sub(r'[^\w\s\-.,!?():$%&]', '', text)
DeleteDisallowed(text) ==
    SelectSeq(text, LAMBDA c : c \in WordChars \cup Whitespace \cup Punctuation)

\* The two substitutions of scrape_page, in the order of the code.
CleanContent(text) == DeleteDisallowed(CollapseWhitespace(strip(text)))

InitClean ==
    /\ InitStore
    /\ conn = [c \in {} |-> IdleConn]
    /\ run = IdleRun
    /\ log = <<>>
    /\ prev = NoPrev
    /\ tz = 0
    /\ due = NoDue
    /\ sitemap = NoSitemap
    /\ reads = NoRead
    /\ cancel = FALSE
    /\ session = NoSessions
    /\ page = NoPage
    /\ cleaned \in {[called |-> FALSE, raw |-> t, content_text |-> <<>>] : t \in PageTexts}
    /\ chat_messages = <<>>
    /\ history = NoHistory

\* scrape_page cleans the text it extracted.
Clean ==
    /\ ~cleaned.called
    /\ cleaned' = [cleaned EXCEPT !.called = TRUE,
                                  !.content_text = CleanContent(cleaned.raw)]
    /\ UNCHANGED <<knowledge_base, next_id, now, call, conn, run, log, prev, tz, due,
                   sitemap, reads, cancel, session, page, chat_messages, history>>

NextClean == Clean

SpecClean == InitClean /\ [][NextClean]_vars

\* C28: the cleaning is idempotent, the cleaned text has no two whitespace
\* characters in a row, and a page that differs from another only in the
\* characters the cleaning removes is cleaned to the same text, and so has
\* the same content hash.
C28_CleaningIdempotent ==
    cleaned.called =>
        /\ CleanContent(cleaned.content_text) = cleaned.content_text
        /\ \A i \in 1..(Len(cleaned.content_text) - 1) :
               ~(cleaned.content_text[i] \in Whitespace
                    /\ cleaned.content_text[i + 1] \in Whitespace)
        /\ CleanContent(DeleteDisallowed(cleaned.raw)) = cleaned.content_text

-----------------------------------------------------------------------------
(* DatabaseManager: the chat_messages table *)

\* The chat sessions of two users, and the two values the table's CHECK
\* accepts as message_type.
ChatSessions == {"c1", "c2"}
MessageTypes == {"user", "assistant"}

\* The limits a caller passes: the default of the signature, and limits
\* that fewer messages than the table holds already exceed.
DefaultHistoryLimit == 10
HistoryLimits == {1, 2, DefaultHistoryLimit}

\* def save_message(session_id, message_type, content, ...): INSERT INTO
\* chat_messages with a fresh message_id; timestamp takes the column
\* default, CURRENT_TIMESTAMP, which has the resolution of a second. The
\* clock counts seconds here.
save_message(messages, session_id, message_type, content) ==
    Append(messages,
           [message_id |-> [tag |-> "uuid", n |-> Len(messages) + 1],
            session_id |-> session_id, message_type |-> message_type,
            content |-> content, timestamp |-> CURRENT_TIMESTAMP])

\* The dict get_chat_history makes of a row.
HistoryMessage(row) ==
    [role |-> row.message_type, content |-> row.content, timestamp |-> row.timestamp]

\* def get_chat_history(session_id, limit): SELECT ... WHERE session_id = ?
\* ORDER BY timestamp DESC LIMIT ?, then list(reversed(messages)). The
\* lists the call can return: rows of equal timestamp stand in any order
\* in the statement's result.
get_chat_history(messages, session_id, limit) ==
    LET own == SelectSeq(messages, LAMBDA r : r.session_id = session_id)
        n == Len(own)
        orders ==
            {p \in [1..n -> 1..n] :
                /\ \A i, j \in 1..n : i # j => p[i] # p[j]
                /\ \A i, j \in 1..n :
                       i < j => own[p[i]].timestamp.t >= own[p[j]].timestamp.t}
        m == IF n < limit THEN n ELSE limit
    IN  {[k \in 1..m |-> HistoryMessage(own[p[m + 1 - k]])] : p \in orders}

InitChat == InitStore /\ InitRest

\* A message is saved: the question of a user or the reply to it. Every
\* text is different from the ones before.
SaveMessage ==
    /\ Len(chat_messages) < MaxMessages
    /\ \E s \in ChatSessions, message_type \in MessageTypes :
        chat_messages' = save_message(chat_messages, s, message_type,
                                      Len(chat_messages) + 1)
    /\ UNCHANGED <<knowledge_base, next_id, now, call, conn, run, log, prev, tz, due,
                   sitemap, reads, cancel, session, page, cleaned, history>>

\* A second passes.
TickChat == now < MaxChatClock /\ Tick

\* get_chat_history(session_id, limit)
GetChatHistory ==
    /\ \E s \in ChatSessions, limit \in HistoryLimits :
        \E messages \in get_chat_history(chat_messages, s, limit) :
            history' = [called |-> TRUE, session_id |-> s, limit |-> limit,
                        table |-> chat_messages, messages |-> messages]
    /\ UNCHANGED <<knowledge_base, next_id, now, call, conn, run, log, prev, tz, due,
                   sitemap, reads, cancel, session, page, cleaned, chat_messages>>

NextChat == SaveMessage \/ TickChat \/ GetChatHistory

SpecChat == InitChat /\ [][NextChat]_vars

\* C30: get_chat_history(session_id, limit) returns the limit most recently
\* saved messages of the session and none of another session, in the order
\* in which they were saved, oldest first, also when several of them have
\* the same timestamp.
C30_LastSavedInStoredOrder ==
    history.called =>
        LET own == SelectSeq(history.table,
                             LAMBDA r : r.session_id = history.session_id)
            m == IF Len(own) < history.limit THEN Len(own) ELSE history.limit
        IN  history.messages =
                [k \in 1..m |-> HistoryMessage(own[Len(own) - m + k])]

====
